---- MODULE Spec2Model ----
(***************************************************************************)
(* Real-time speech-to-speech translation server.                          *)
(*                                                                         *)
(*   server.py                     AudioSocketServer  (select loop,        *)
(*                                 callbacks, stream_numpy_array_audio)    *)
(*   models/speech_recognition.py  SpeechRecognitionModel (worker thread)  *)
(*   models/text_to_speech.py      TextToSpeechModel      (worker thread)  *)
(*                                                                         *)
(* Time is counted in whole ticks of the wall clock; TicksPerSecond ticks  *)
(* make one second.  One pass of the recognition worker's loop ends with   *)
(* time.sleep and therefore takes at least one tick.                       *)
(*                                                                         *)
(* Audio bytes carry their origin: a byte is [src |-> socket, n |-> k],    *)
(* the k-th chunk the server received.  A transcription is identified by   *)
(* the buffer it was obtained from; the empty text is <<>>.                *)
(***************************************************************************)
EXTENDS Integers, Sequences, FiniteSets, TLC

\* ---------------------------------------------------------------- bounds
\* The client sockets that may ever be accepted.
Clients == {"A", "B"}
\* How many chunks the clients send altogether.
MaxChunks == 3
\* Resolution of the clock (ticks per second).
TicksPerSecond == 2
\* The clock stops here.
MaxTime == 6
\* How many phrases are handed to the synthesiser from outside the
\* recognition worker (SynthSpec).
MaxTasks == 3

\* ------------------------------------------------------------- constants
\* speech_recognition.py:52   self.phrase_timeout = 1   (seconds)
phrase_timeout == 1

\* current_client = None / client_socket is None
None == "None"
\* the empty string
NoText == <<>>

VARIABLES
    clock,                 \* wall clock (datetime.utcnow()), in ticks
    \* --- AudioSocketServer
    read_list,             \* client sockets in self.read_list
    conn,                  \* per socket: "new", "open" or "gone" (peer side)
    data_queue,            \* self.data_queue: sequence of <<socket, bytes>>
    \* --- SpeechRecognitionModel
    w_pc,                  \* position of __worker__
    now,                   \* local `now` of the current pass
    phrase_complete,       \* local `phrase_complete` of the current pass
    phrase_time,           \* self.phrase_time
    last_sample,           \* self.last_sample
    recent_transcription,  \* self.recent_transcription
    current_client,        \* self.current_client
    \* --- TextToSpeechModel
    task_queue,            \* self.task_queue: sequence of <<socket, text>>
    t_pc,                  \* position of worker
    t_task,                \* local (client, text) of worker
    t_audio,               \* local audio of worker
    \* --- what the sockets carried
    sent,                  \* per socket: audio written by sendall
    \* --- history
    arrivals,              \* per received chunk: [client, late]; late: it came
                           \*   after a silence of at least phrase_timeout
    silence,               \* ticks since the last chunk came, counted up to Timeout
    generated,             \* packets given to generation_callback
    finals,                \* calls of final_callback: [client, text, by, drained];
                           \*   drained: chunks popped from data_queue by then
    engine_result,         \* outcome of the last transcription of this pass
    tick0,                 \* worker state when the current pass began
    dispatched,            \* calls of callback_function: [client, audio]
    t_error,               \* the exception raised while the synthesis thread
                           \*   worked on t_task: "none", "engine", "reset", "pipe"
    \* --- start() and the stop flags
    m_pc,                  \* position of start(): "loop", "remove", "cleanup",
                           \*   "join", "close", "returned", "crashed"
    m_s,                   \* local `s` of the select loop while it is handled
    kill_thread,           \* SpeechRecognitionModel._kill_thread
    tts_kill_thread,       \* TextToSpeechModel.__kill_thread
    closed                 \* the sockets that were closed by the server

netVars == <<read_list, conn, data_queue, arrivals, silence>>
segVars == <<w_pc, now, phrase_complete, phrase_time, last_sample,
             recent_transcription, current_client, generated, engine_result, tick0>>
outVars == <<task_queue, finals>>
ttsVars == <<t_pc, t_task, t_audio, sent, dispatched, t_error>>
runVars == <<m_pc, m_s, kill_thread, tts_kill_thread, closed>>
vars == <<clock, netVars, segVars, outVars, ttsVars, runVars>>

\* phrase_timeout in ticks
Timeout == phrase_timeout * TicksPerSecond

\* Number of chunks the recognition worker has popped so far.
Drained == Len(arrivals) - Len(data_queue)

\* tick0 between two passes of the worker
NoTick == [last_sample |-> <<>>, phrase_time |-> 0,
           recent_transcription |-> NoText, nfinals |-> 0, ngenerated |-> 0,
           drained |-> 0]

\* ------------------------------------------------------------------ Init
\* AudioSocketServer.__init__, SpeechRecognitionModel.__init__,
\* TextToSpeechModel.__init__, and start() up to the select loop.
Init ==
    /\ clock = 0
    /\ read_list = {}
    /\ conn = [c \in Clients |-> "new"]
    /\ data_queue = <<>>
    /\ w_pc = "top"
    /\ now = 0
    /\ phrase_complete = FALSE
    /\ phrase_time = 0
    /\ last_sample = <<>>
    /\ recent_transcription = NoText
    /\ current_client = None
    /\ task_queue = <<>>
    /\ t_pc = "top"
    /\ t_task = <<None, NoText>>
    /\ t_audio = NoText
    /\ sent = [c \in Clients |-> <<>>]
    /\ arrivals = <<>>
    /\ silence = 0
    /\ generated = <<>>
    /\ finals = <<>>
    /\ engine_result = "none"
    /\ tick0 = NoTick
    /\ dispatched = <<>>
    /\ t_error = "none"
    /\ m_pc = "loop"
    /\ m_s = None
    /\ kill_thread = FALSE
    /\ tts_kill_thread = FALSE
    /\ closed = {}

\* ------------------------------------------------- AudioSocketServer.start
\* self.serversocket.accept(); self.read_list.append(clientsocket)
Accept(c) ==
    /\ conn[c] = "new"
    /\ conn' = [conn EXCEPT ![c] = "open"]
    /\ read_list' = read_list \cup {c}
    /\ UNCHANGED <<clock, data_queue, arrivals, silence, segVars, outVars, ttsVars>>
    /\ UNCHANGED runVars

\* The peer closes or crashes; the server has not noticed yet.
PeerGone(c) ==
    /\ conn[c] = "open"
    /\ conn' = [conn EXCEPT ![c] = "gone"]
    /\ UNCHANGED <<clock, read_list, data_queue, arrivals, silence, segVars, outVars, ttsVars>>
    /\ UNCHANGED runVars

\* data = s.recv(4096); if data: self.data_queue.put((s, data))
RecvData(c) ==
    /\ c \in read_list
    /\ conn[c] = "open"
    /\ Len(arrivals) < MaxChunks
    /\ LET k == Len(arrivals) + 1
           data == <<[src |-> c, n |-> k]>>
       IN  /\ data_queue' = Append(data_queue, <<c, data>>)
           /\ arrivals' = Append(arrivals, [client |-> c, late |-> silence >= Timeout])
           /\ silence' = 0
    /\ UNCHANGED <<clock, read_list, conn, segVars, outVars, ttsVars>>
    /\ UNCHANGED runVars

\* recv returns b"" (orderly close) or raises ConnectionResetError:
\* self.read_list.remove(s)
RecvClosed(c) ==
    /\ c \in read_list
    /\ conn[c] = "gone"
    /\ read_list' = read_list \ {c}
    /\ UNCHANGED <<clock, conn, data_queue, arrivals, silence, segVars, outVars, ttsVars>>
    /\ UNCHANGED runVars

\* ------------------------------------------- callbacks into the synthesiser
\* TextToSpeechModel.synthesise: self.task_queue.put((client_socket, text))
\* (the speaker embeddings are loaded in AudioSocketServer.__init__).
synthesise(text, client_socket) ==
    task_queue' = Append(task_queue, <<client_socket, text>>)

\* AudioSocketServer.handle_transcription, the final_callback.
final_callback(text, client, by) ==
    /\ synthesise(text, client)
    /\ finals' = Append(finals, [client |-> client, text |-> text, by |-> by,
                                 drained |-> Len(arrivals) - Len(data_queue')])

\* --------------------------------------------------- SpeechRecognitionModel
\* current_time - self.phrase_time > timedelta(seconds=self.phrase_timeout)
TimedOut(current_time, pt) == current_time - pt > Timeout

\* __flush_last_phrase__ without `self.last_sample = b""`
flush_last_phrase_keeps_buffer(current_time) ==
    IF TimedOut(current_time, phrase_time)
       /\ recent_transcription # NoText /\ current_client # None
    THEN /\ final_callback(recent_transcription, current_client, "flush")
         /\ recent_transcription' = NoText
         /\ phrase_time' = current_time
         /\ UNCHANGED last_sample
    ELSE UNCHANGED <<task_queue, finals, recent_transcription, phrase_time, last_sample>>

\* __flush_last_phrase__ without the test of self.recent_transcription
flush_last_phrase_any_text(current_time) ==
    IF TimedOut(current_time, phrase_time) /\ current_client # None
    THEN /\ final_callback(recent_transcription, current_client, "flush")
         /\ recent_transcription' = NoText
         /\ phrase_time' = current_time
         /\ last_sample' = <<>>
    ELSE UNCHANGED <<task_queue, finals, recent_transcription, phrase_time, last_sample>>

\* __flush_last_phrase__ with a timeout one tick longer than the one of
\* __update_phrase_time__
flush_last_phrase_late(current_time) ==
    IF TimedOut(current_time, phrase_time + 1)
       /\ recent_transcription # NoText /\ current_client # None
    THEN /\ final_callback(recent_transcription, current_client, "flush")
         /\ recent_transcription' = NoText
         /\ phrase_time' = current_time
         /\ last_sample' = <<>>
    ELSE UNCHANGED <<task_queue, finals, recent_transcription, phrase_time, last_sample>>

\* __flush_last_phrase__
flush_last_phrase(current_time) ==
    IF TimedOut(current_time, phrase_time)
       /\ recent_transcription # NoText /\ current_client # None
    THEN /\ final_callback(recent_transcription, current_client, "flush")
         /\ recent_transcription' = NoText
         /\ phrase_time' = current_time
         /\ last_sample' = <<>>
    ELSE UNCHANGED <<task_queue, finals, recent_transcription, phrase_time, last_sample>>

\* __worker__: while not self._kill_thread: now = utcnow(); flush
SegTop ==
    /\ w_pc = "top"
    /\ ~kill_thread
    /\ now' = clock
    /\ tick0' = [last_sample |-> last_sample, phrase_time |-> phrase_time,
                 recent_transcription |-> recent_transcription,
                 nfinals |-> Len(finals), ngenerated |-> Len(generated),
                 drained |-> Drained]
    /\ engine_result' = "none"
    /\ UNCHANGED <<clock, netVars, phrase_complete, current_client, generated, ttsVars>>
    /\ flush_last_phrase(clock)
    /\ w_pc' = "check"
    /\ UNCHANGED runVars

\* __worker__: if not self.data_queue.empty(): (queue empty)
SegCheckEmpty ==
    /\ w_pc = "check"
    /\ data_queue = <<>>
    /\ w_pc' = "sleep"
    /\ UNCHANGED <<clock, netVars, now, phrase_complete, phrase_time, last_sample,
                   recent_transcription, current_client, generated, engine_result,
                   tick0, outVars, ttsVars>>
    /\ UNCHANGED runVars

\* __update_phrase_time__
update_phrase_time(current_time) ==
    IF TimedOut(current_time, phrase_time)
    THEN /\ phrase_time' = current_time
         /\ last_sample' = <<>>
         /\ phrase_complete' = TRUE
    ELSE /\ phrase_complete' = FALSE
         /\ UNCHANGED <<phrase_time, last_sample>>

\* __worker__: the queue holds data: phrase_complete = update_phrase_time(now)
SegCheckData ==
    /\ w_pc = "check"
    /\ data_queue # <<>>
    /\ update_phrase_time(now)
    /\ w_pc' = "drain"
    /\ UNCHANGED <<clock, netVars, now, recent_transcription, current_client,
                   generated, engine_result, tick0, outVars, ttsVars>>
    /\ UNCHANGED runVars

\* __concatenate_new_audio__ with self.current_client assigned before the flush
concatenate_one_late_flush(client, data) ==
    /\ IF client # current_client
       THEN /\ final_callback(recent_transcription, client, "switch")
            /\ recent_transcription' = NoText
            /\ phrase_time' = clock
            /\ last_sample' = data
       ELSE /\ last_sample' = last_sample \o data
            /\ UNCHANGED <<task_queue, finals, recent_transcription, phrase_time>>
    /\ current_client' = client

\* __concatenate_new_audio__ without `self.last_sample = b""`
concatenate_one_keeps_buffer(client, data) ==
    /\ IF client # current_client
       THEN /\ final_callback(recent_transcription, current_client, "switch")
            /\ recent_transcription' = NoText
            /\ phrase_time' = clock
       ELSE UNCHANGED <<task_queue, finals, recent_transcription, phrase_time>>
    /\ last_sample' = last_sample \o data
    /\ current_client' = client

\* __concatenate_new_audio__ with `self.last_sample = data` for `+=`
concatenate_one_replaces(client, data) ==
    /\ IF client # current_client
       THEN /\ final_callback(recent_transcription, current_client, "switch")
            /\ recent_transcription' = NoText
            /\ phrase_time' = clock
            /\ last_sample' = data
       ELSE /\ last_sample' = data
            /\ UNCHANGED <<task_queue, finals, recent_transcription, phrase_time>>
    /\ current_client' = client

\* __concatenate_new_audio__ without the call of self.final_callback
concatenate_one_silent(client, data) ==
    /\ IF client # current_client
       THEN /\ recent_transcription' = NoText
            /\ phrase_time' = clock
            /\ last_sample' = data
            /\ UNCHANGED <<task_queue, finals>>
       ELSE /\ last_sample' = last_sample \o data
            /\ UNCHANGED <<task_queue, finals, recent_transcription, phrase_time>>
    /\ current_client' = client

\* __concatenate_new_audio__: one pass of the while loop
concatenate_one(client, data) ==
    /\ IF client # current_client
       THEN /\ final_callback(recent_transcription, current_client, "switch")
            /\ recent_transcription' = NoText
            /\ phrase_time' = clock
            /\ last_sample' = data
       ELSE /\ last_sample' = last_sample \o data
            /\ UNCHANGED <<task_queue, finals, recent_transcription, phrase_time>>
    /\ current_client' = client

SegDrainPop ==
    /\ w_pc = "drain"
    /\ data_queue # <<>>
    /\ data_queue' = Tail(data_queue)
    /\ concatenate_one(Head(data_queue)[1], Head(data_queue)[2])
    /\ UNCHANGED <<clock, read_list, conn, arrivals, silence, w_pc, now, phrase_complete,
                   generated, engine_result, tick0, ttsVars>>
    /\ UNCHANGED runVars

\* __concatenate_new_audio__: the queue is empty, the loop ends
SegDrainEnd ==
    /\ w_pc = "drain"
    /\ data_queue = <<>>
    /\ w_pc' = "transcribe"
    /\ UNCHANGED <<clock, netVars, now, phrase_complete, phrase_time, last_sample,
                   recent_transcription, current_client, generated, engine_result,
                   tick0, outVars, ttsVars>>
    /\ UNCHANGED runVars

\* What self.audio_model.transcribe can do with a buffer: raise, return
\* blank text, or return the text of that buffer.
EngineOutcomes == {"raise", "empty", "text"}

\* __transcribe_audio__ with an except clause that forgets the last text
transcribe_audio_resets(outcome, complete) ==
    LET text == IF outcome = "text" THEN last_sample ELSE NoText
    IN  IF outcome # "raise" /\ text # NoText
        THEN /\ generated' = Append(generated, [add |-> complete, text |-> text])
             /\ IF complete /\ recent_transcription # NoText /\ current_client # None
                THEN final_callback(recent_transcription, current_client, "complete")
                ELSE UNCHANGED <<task_queue, finals>>
             /\ recent_transcription' = text
        ELSE /\ recent_transcription' = IF outcome = "raise" THEN NoText
                                        ELSE recent_transcription
             /\ UNCHANGED <<generated, task_queue, finals>>

\* __transcribe_audio__
transcribe_audio(outcome, complete) ==
    LET text == IF outcome = "text" THEN last_sample ELSE NoText
    IN  IF outcome # "raise" /\ text # NoText
        THEN /\ generated' = Append(generated, [add |-> complete, text |-> text])
             /\ IF complete /\ recent_transcription # NoText /\ current_client # None
                THEN final_callback(recent_transcription, current_client, "complete")
                ELSE UNCHANGED <<task_queue, finals>>
             /\ recent_transcription' = text
        ELSE UNCHANGED <<generated, task_queue, finals, recent_transcription>>

SegTranscribe ==
    /\ w_pc = "transcribe"
    /\ UNCHANGED <<clock, netVars, now, phrase_complete, phrase_time, last_sample,
                   current_client, tick0, ttsVars>>
    /\ \E outcome \in EngineOutcomes :
          /\ transcribe_audio(outcome, phrase_complete)
          /\ engine_result' = outcome
    /\ w_pc' = "sleep"
    /\ UNCHANGED runVars

\* One tick of the wall clock.
Pass1Tick ==
    /\ clock' = clock + 1
    /\ silence' = IF silence < Timeout THEN silence + 1 ELSE silence

\* __worker__: time.sleep(0.05); the pass is over and its locals are gone
SegSleep ==
    /\ w_pc = "sleep"
    /\ clock < MaxTime
    /\ Pass1Tick
    /\ w_pc' = "top"
    /\ now' = 0
    /\ phrase_complete' = FALSE
    /\ engine_result' = "none"
    /\ tick0' = NoTick
    /\ UNCHANGED <<read_list, conn, data_queue, arrivals, phrase_time, last_sample, recent_transcription,
                   current_client, generated, outVars, ttsVars>>
    /\ UNCHANGED runVars

\* Time passes while the worker is busy (a slow transcription, a preempted thread).
Tock ==
    /\ w_pc \in {"drain", "transcribe"}
    /\ clock < MaxTime
    /\ Pass1Tick
    /\ UNCHANGED <<read_list, conn, data_queue, arrivals, segVars, outVars, ttsVars>>
    /\ UNCHANGED runVars

SegNext ==
    \/ SegTop
    \/ SegCheckEmpty
    \/ SegCheckData
    \/ SegDrainPop
    \/ SegDrainEnd
    \/ SegTranscribe
    \/ SegSleep

\* --------------------------------------------------------- TextToSpeechModel
\* The recognition worker seen from the synthesiser: final_callback is called
\* with the text and owner of a phrase.  The owner is a socket that was
\* accepted; a phrase without owner has no text.
handle_transcription(packet, client_socket) ==
    /\ Len(finals) < MaxTasks
    /\ UNCHANGED <<clock, netVars, segVars, ttsVars>>
    /\ final_callback(packet, client_socket, "recognition")
    /\ UNCHANGED runVars

Phrases ==
    {<<NoText, None>>} \cup
    {<<NoText, c>> : c \in {c \in Clients : conn[c] # "new"}} \cup
    {<<(<<[src |-> c, n |-> Len(finals) + 1]>>), c>> : c \in {c \in Clients : conn[c] # "new"}}

\* worker: while not self.__kill_thread: if not self.task_queue.empty():
\* (queue empty)
TtsIdle ==
    /\ t_pc = "top"
    /\ ~tts_kill_thread
    /\ task_queue = <<>>
    /\ t_pc' = "sleep"
    /\ UNCHANGED <<clock, netVars, segVars, outVars, t_task, t_audio, sent,
                   dispatched, t_error>>
    /\ UNCHANGED runVars

\* worker: client, text = self.task_queue.get()
TtsGet ==
    /\ t_pc = "top"
    /\ ~tts_kill_thread
    /\ task_queue # <<>>
    /\ t_task' = Head(task_queue)
    /\ task_queue' = Tail(task_queue)
    /\ t_pc' = "synth"
    /\ t_error' = "none"
    /\ UNCHANGED <<clock, netVars, segVars, finals, t_audio, sent, dispatched>>
    /\ UNCHANGED runVars

\* The audio generate_speech returns for a text.
Speech(text) == [speech_of |-> text]

\* What self.model.generate_speech can do: return audio, or raise.
SynthOutcomes == {"ok", "raise"}

\* worker: audio = self.synthesise_blocking(text); nothing catches an exception,
\* which ends the thread.
synthesise_blocking(outcome) ==
    IF outcome = "ok"
    THEN /\ t_audio' = Speech(t_task[2])
         /\ t_pc' = "callback"
         /\ UNCHANGED t_error
    ELSE /\ t_error' = "engine"
         /\ t_pc' = "dead"
         /\ UNCHANGED t_audio

TtsSynthesise ==
    /\ t_pc = "synth"
    /\ \E outcome \in SynthOutcomes : synthesise_blocking(outcome)
    /\ UNCHANGED <<clock, netVars, segVars, outVars, t_task, sent, dispatched>>
    /\ UNCHANGED runVars

\* What client_socket.sendall can do: write everything, or raise
\* ConnectionResetError or BrokenPipeError once the peer is gone.
SendOutcomes(client_socket) ==
    IF conn[client_socket] = "open" THEN {"ok"} ELSE {"ok", "reset", "pipe"}

\* AudioSocketServer.stream_numpy_array_audio, called on the synthesis thread;
\* the result is the position of worker after the call.
stream_numpy_array_audio(audio, client_socket, outcome) ==
    IF client_socket = None
    THEN /\ t_pc' = "sleep"
         /\ UNCHANGED <<sent, read_list, t_error>>
    ELSE CASE outcome = "ok" ->
                /\ sent' = [sent EXCEPT ![client_socket] = Append(@, audio)]
                /\ t_pc' = "sleep"
                /\ UNCHANGED <<read_list, t_error>>
           [] outcome = "reset" ->
                /\ read_list' = read_list \ {client_socket}
                /\ t_error' = "reset"
                /\ t_pc' = "sleep"
                /\ UNCHANGED sent
           [] outcome = "pipe" ->
                /\ t_error' = "pipe"
                /\ t_pc' = "dead"
                /\ UNCHANGED <<sent, read_list>>

\* worker: self.callback_function(audio, client); self.task_queue.task_done()
\* (callback_function is AudioSocketServer.handle_synthesize)
TtsCallback ==
    /\ t_pc = "callback"
    /\ dispatched' = Append(dispatched, [client |-> t_task[1], audio |-> t_audio])
    /\ \E outcome \in (IF t_task[1] = None THEN {"ok"} ELSE SendOutcomes(t_task[1])) :
          stream_numpy_array_audio(t_audio, t_task[1], outcome)
    /\ UNCHANGED <<clock, conn, data_queue, arrivals, silence, segVars, outVars,
                   t_task, t_audio>>
    /\ UNCHANGED runVars

\* worker: time.sleep(0.05)
TtsSleep ==
    /\ t_pc = "sleep"
    /\ t_pc' = "top"
    /\ UNCHANGED <<clock, netVars, segVars, outVars, t_task, t_audio, sent,
                   dispatched, t_error>>
    /\ UNCHANGED runVars

TtsNext ==
    \/ TtsIdle
    \/ TtsGet
    \/ TtsSynthesise
    \/ TtsCallback
    \/ TtsSleep

\* The multiplexer's socket set, the synthesis worker and the output path;
\* phrases arrive through final_callback.
SynthNext ==
    \/ \E c \in Clients : Accept(c)
    \/ \E c \in Clients : PeerGone(c)
    \/ \E c \in Clients : RecvClosed(c)
    \/ \E ph \in Phrases : handle_transcription(ph[1], ph[2])
    \/ TtsNext

SynthSpec == Init /\ [][SynthNext]_vars

\* The multiplexer and the recognition worker; phrases pile up in task_queue.
Next ==
    \/ \E c \in Clients : Accept(c)
    \/ \E c \in Clients : RecvData(c)
    \/ SegNext
    \/ Tock

Spec == Init /\ [][Next]_vars

\* The same with a worker that is never held up: every pass of its loop takes
\* exactly one tick.
PromptNext ==
    \/ \E c \in Clients : Accept(c)
    \/ \E c \in Clients : RecvData(c)
    \/ SegNext

PromptSpec == Init /\ [][PromptNext]_vars

\* The prompt worker, whose thread is always scheduled again.
FairPromptSpec == Init /\ [][PromptNext]_vars /\ WF_vars(SegNext)

\* ------------------------------------------------------------- shutdown
\* The name of the listening socket in `closed`.
serversocket == "serversocket"

\* Ctrl-C while start() is in its select loop: except KeyboardInterrupt: pass
KeyboardInterrupt ==
    /\ m_pc = "loop"
    /\ m_pc' = "cleanup"
    /\ UNCHANGED <<clock, netVars, segVars, outVars, ttsVars, m_s, kill_thread,
                   tts_kill_thread, closed>>

\* start(): self.audio.terminate(); self.transcriber.stop(), which begins with
\* self._kill_thread = True
TranscriberStop ==
    /\ m_pc = "cleanup"
    /\ kill_thread' = TRUE
    /\ m_pc' = "join"
    /\ UNCHANGED <<clock, netVars, segVars, outVars, ttsVars, m_s, tts_kill_thread, closed>>

\* SpeechRecognitionModel.stop: self.thread.join() returns
TranscriberJoined ==
    /\ m_pc = "join"
    /\ w_pc = "exit"
    /\ m_pc' = "close"
    /\ UNCHANGED <<clock, netVars, segVars, outVars, ttsVars, m_s, kill_thread,
                   tts_kill_thread, closed>>

\* start(): self.serversocket.shutdown(SHUT_RDWR); self.serversocket.close();
\* start() returns.  Nothing is done with the sockets in self.read_list.
CloseServerSocket ==
    /\ m_pc = "close"
    /\ closed' = closed \cup {serversocket}
    /\ m_pc' = "returned"
    /\ UNCHANGED <<clock, netVars, segVars, outVars, ttsVars, m_s, kill_thread,
                   tts_kill_thread>>

\* __worker__: while not self._kill_thread: (the flag is set, the thread ends)
SegExit ==
    /\ w_pc = "top"
    /\ kill_thread
    /\ w_pc' = "exit"
    /\ UNCHANGED <<clock, netVars, now, phrase_complete, phrase_time, last_sample,
                   recent_transcription, current_client, generated, engine_result,
                   tick0, outVars, ttsVars, runVars>>

\* __worker__: time.sleep(0.05).  Past MaxTime the clock is no longer counted.
StopSegSleep ==
    IF clock < MaxTime
    THEN SegSleep
    ELSE /\ w_pc = "sleep"
         /\ w_pc' = "top"
         /\ now' = 0
         /\ phrase_complete' = FALSE
         /\ engine_result' = "none"
         /\ tick0' = NoTick
         /\ UNCHANGED <<clock, netVars, phrase_time, last_sample, recent_transcription,
                        current_client, generated, outVars, ttsVars, runVars>>

\* The recognition thread while start() runs and shuts down.
StopSegNext ==
    \/ SegTop
    \/ SegExit
    \/ SegCheckEmpty
    \/ SegCheckData
    \/ SegDrainPop
    \/ SegDrainEnd
    \/ SegTranscribe
    \/ StopSegSleep

\* worker: while not self.__kill_thread: ...  The flag is assigned in __init__
\* (False) and in __del__ only; start() and SpeechRecognitionModel.stop do not
\* touch it, and the running thread keeps the object alive.
TtsTop ==
    IF tts_kill_thread
    THEN /\ t_pc = "top"
         /\ t_pc' = "exit"
         /\ UNCHANGED <<clock, netVars, segVars, outVars, t_task, t_audio, sent,
                        dispatched, t_error, runVars>>
    ELSE TtsIdle \/ TtsGet

\* The synthesis thread while start() runs and shuts down.
StopTtsNext ==
    \/ TtsTop
    \/ TtsSynthesise
    \/ TtsCallback
    \/ TtsSleep

\* start() from the select loop to its return, with both worker threads.
StopNext ==
    \/ \E c \in Clients : m_pc = "loop" /\ Accept(c)
    \/ \E c \in Clients : m_pc = "loop" /\ RecvData(c)
    \/ KeyboardInterrupt
    \/ TranscriberStop
    \/ TranscriberJoined
    \/ CloseServerSocket
    \/ StopSegNext
    \/ StopTtsNext

\* Every thread that can take a step eventually takes one.
StopFairness ==
    /\ WF_vars(KeyboardInterrupt \/ TranscriberStop \/ TranscriberJoined \/ CloseServerSocket)
    /\ WF_vars(StopSegNext)
    /\ WF_vars(StopTtsNext)

StopSpec == Init /\ [][StopNext]_vars /\ StopFairness

\* ------------------------------------- read_list shared by two threads
\* The removals from self.read_list step by step: the multiplexer between
\* recv and remove, the synthesis thread between `in` and remove.

\* start(): s.recv(4096) returns b"" or raises ConnectionResetError for a
\* socket that select reported readable; the next statement is
\* self.read_list.remove(s).
RaceRecvClosed(c) ==
    /\ m_pc = "loop"
    /\ c \in read_list
    /\ conn[c] = "gone"
    /\ m_s' = c
    /\ m_pc' = "remove"
    /\ UNCHANGED <<clock, netVars, segVars, outVars, ttsVars, kill_thread,
                   tts_kill_thread, closed>>

\* start(): self.read_list.remove(s).  list.remove raises ValueError when s is
\* not in the list; start() catches KeyboardInterrupt only, so it ends there.
RaceMuxRemove ==
    /\ m_pc = "remove"
    /\ IF m_s \in read_list
       THEN /\ read_list' = read_list \ {m_s}
            /\ m_pc' = "loop"
       ELSE /\ m_pc' = "crashed"
            /\ UNCHANGED read_list
    /\ m_s' = None
    /\ UNCHANGED <<clock, conn, data_queue, arrivals, silence, segVars, outVars, ttsVars,
                   kill_thread, tts_kill_thread, closed>>

\* stream_numpy_array_audio up to the except clause: client_socket.sendall
RaceTtsSend ==
    /\ t_pc = "callback"
    /\ dispatched' = Append(dispatched, [client |-> t_task[1], audio |-> t_audio])
    /\ \E outcome \in (IF t_task[1] = None THEN {"ok"} ELSE SendOutcomes(t_task[1])) :
          IF outcome = "reset"
          THEN /\ t_error' = "reset"
               /\ t_pc' = "member"
               /\ UNCHANGED <<sent, read_list>>
          ELSE stream_numpy_array_audio(t_audio, t_task[1], outcome)
    /\ UNCHANGED <<clock, conn, data_queue, arrivals, silence, segVars, outVars,
                   t_task, t_audio, runVars>>

\* stream_numpy_array_audio: if client_socket in self.read_list:
RaceTtsMember ==
    /\ t_pc = "member"
    /\ t_pc' = IF t_task[1] \in read_list THEN "remove" ELSE "sleep"
    /\ UNCHANGED <<clock, netVars, segVars, outVars, t_task, t_audio, sent,
                   dispatched, t_error, runVars>>

\* stream_numpy_array_audio: self.read_list.remove(client_socket).  A
\* ValueError raised here is caught nowhere and ends the synthesis thread.
RaceTtsRemove ==
    /\ t_pc = "remove"
    /\ IF t_task[1] \in read_list
       THEN /\ read_list' = read_list \ {t_task[1]}
            /\ t_pc' = "sleep"
            /\ UNCHANGED t_error
       ELSE /\ t_error' = "value"
            /\ t_pc' = "dead"
            /\ UNCHANGED read_list
    /\ UNCHANGED <<clock, conn, data_queue, arrivals, silence, segVars, outVars,
                   t_task, t_audio, sent, dispatched, runVars>>

RaceNext ==
    \/ \E c \in Clients : m_pc = "loop" /\ Accept(c)
    \/ \E c \in Clients : PeerGone(c)
    \/ \E c \in Clients : RaceRecvClosed(c)
    \/ RaceMuxRemove
    \/ \E ph \in Phrases : handle_transcription(ph[1], ph[2])
    \/ TtsIdle
    \/ TtsGet
    \/ TtsSynthesise
    \/ RaceTtsSend
    \/ RaceTtsMember
    \/ RaceTtsRemove
    \/ TtsSleep

RaceSpec == Init /\ [][RaceNext]_vars

\* ======================================================================
\* Properties
\* ======================================================================
IsPrefix(a, b) == Len(a) <= Len(b) /\ SubSeq(b, 1, Len(a)) = a

\* All chunks so far came from one socket.
SingleClient == \A i, j \in DOMAIN arrivals : arrivals[i].client = arrivals[j].client

\* Every chunk but the first came less than phrase_timeout after the one before.
ShortGaps == \A i \in 2..Len(arrivals) : ~arrivals[i].late

\* One client is sending with short gaps and the last chunk is younger than
\* phrase_timeout.
Streaming == arrivals # <<>> /\ SingleClient /\ ShortGaps /\ silence < Timeout

\* The phrases with text that were finalized.
TextFinals == {i \in DOMAIN finals : finals[i].text # NoText}

\* C1 (as claimed): while one client streams with gaps shorter than
\* phrase_timeout the buffer only grows and no phrase is finalized.
C1_StreamIsOnePhrase ==
    [][Streaming' => (IsPrefix(last_sample, last_sample') /\ TextFinals' = {})]_vars

\* The chunk number of the last byte of a text.
LastChunk(text) == text[Len(text)].n

\* The transcriptions obtained right after chunk k was drained.
HeardAt(k) == {j \in DOMAIN generated : LastChunk(generated[j].text) = k}

\* The finalized phrases whose text was heard right after chunk k.
PhrasesUpTo(k) == {i \in TextFinals : LastChunk(finals[i].text) = k}

\* C2 (as claimed): with one client, every silence of at least phrase_timeout
\* that follows transcribed text yields exactly one finalized phrase, with the
\* last text heard before the silence and that client, and the buffer is empty
\* right after it is emitted.
C2_EveryGapFinalizes ==
    [][/\ (SingleClient' /\ w_pc' = "sleep") =>
            \A k \in 1..(Drained' - 1) :
                (arrivals'[k + 1].late /\ HeardAt(k)' # {}) =>
                    /\ Cardinality(PhrasesUpTo(k)') = 1
                    /\ \A i \in PhrasesUpTo(k)' :
                          /\ finals'[i].client = arrivals'[k].client
                          /\ \A j \in HeardAt(k)' : finals'[i].text = generated'[j].text
       /\ (SingleClient' /\ TextFinals' # TextFinals) => last_sample' = <<>>]_vars

\* The idle flushes.
Flushes == {i \in DOMAIN finals : finals[i].by = "flush"}

\* C2 (amended): a pass of the worker that begins more than phrase_timeout
\* after phrase_time with text in recent_transcription finalizes exactly one
\* phrase: its text is the last transcription obtained, its client the owner
\* of that audio, and the buffer is empty right after.  Between two drained
\* chunks there is at most one such phrase.
C2_FlushAfterTimeout ==
    [][/\ (w_pc = "top" /\ w_pc' = "check"
           /\ clock - phrase_time > Timeout /\ recent_transcription # NoText) =>
             /\ finals' = Append(finals, [client |-> current_client,
                                          text |-> recent_transcription,
                                          by |-> "flush", drained |-> Drained])
             /\ task_queue' = Append(task_queue, <<current_client, recent_transcription>>)
             /\ recent_transcription = generated[Len(generated)].text
             /\ \A i \in DOMAIN recent_transcription :
                    recent_transcription[i].src = current_client
             /\ last_sample' = <<>>
       /\ \A i, j \in Flushes' : finals'[i].drained = finals'[j].drained => i = j]_vars

\* C2 witness: one client was heard, fell silent for phrase_timeout, and the
\* flush has just finalized its phrase.
C2_Witness ==
    /\ w_pc = "check" /\ SingleClient /\ silence >= Timeout
    /\ finals # <<>> /\ finals[Len(finals)].by = "flush"
    /\ finals[Len(finals)].text # NoText
    /\ Len(finals) = tick0.nfinals + 1
    /\ last_sample = <<>>

\* C3: popping a chunk of another client while recent_transcription holds text
\* finalizes that text for the previous owner in the same step, before the
\* buffer holds a byte of the new client and so before any transcription of one.
C3_SwitchFinalizesFirst ==
    [][(w_pc = "drain" /\ data_queue # <<>> /\ data_queue' = Tail(data_queue)
        /\ Head(data_queue)[1] # current_client /\ recent_transcription # NoText) =>
          /\ finals' = Append(finals, [client |-> current_client,
                                       text |-> recent_transcription,
                                       by |-> "switch", drained |-> Drained + 1])
          /\ task_queue' = Append(task_queue, <<current_client, recent_transcription>>)
          /\ current_client # None
          /\ \A i \in DOMAIN recent_transcription :
                 recent_transcription[i].src = current_client
          /\ \A j \in DOMAIN generated : LastChunk(generated[j].text) <= Drained
          /\ generated' = generated
          /\ last_sample' = Head(data_queue)[2]
          /\ w_pc' = "drain"]_vars

\* C3 witness: a phrase with text was finalized by a client switch and the
\* buffer now holds the new client's audio only.
C3_Witness ==
    /\ finals # <<>> /\ finals[Len(finals)].by = "switch"
    /\ finals[Len(finals)].text # NoText
    /\ finals[Len(finals)].client \in Clients
    /\ current_client \in Clients \ {finals[Len(finals)].client}
    /\ w_pc = "transcribe"

\* C4: the buffer holds bytes of current_client only (none without an owner),
\* so does the text obtained from it, and every finalized phrase names the
\* client whose audio its text came from.
C4_OneClientPerPhrase ==
    /\ \A i \in DOMAIN last_sample : last_sample[i].src = current_client
    /\ current_client = None => last_sample = <<>>
    /\ \A i \in DOMAIN recent_transcription : recent_transcription[i].src = current_client
    /\ \A j \in DOMAIN generated :
          \A i \in DOMAIN generated[j].text :
              generated[j].text[i].src = generated[j].text[1].src
    /\ \A f \in DOMAIN finals :
          \A i \in DOMAIN finals[f].text : finals[f].text[i].src = finals[f].client

\* C4 witness: two clients spoke in turn; the first one's phrase is finalized
\* and the second one's audio is about to be transcribed.
C4_Witness ==
    /\ w_pc = "transcribe" /\ Len(last_sample) >= 1
    /\ \E f \in DOMAIN finals :
          /\ finals[f].text # NoText
          /\ finals[f].client # current_client
    /\ \E i, j \in DOMAIN arrivals : arrivals[i].client # arrivals[j].client

\* C5: after an idle flush nothing is finalized until another chunk has been
\* drained, and a pass that finds no text in recent_transcription and no data
\* in the queue finalizes nothing.
C5_IdleFlushOnce ==
    [][/\ \A i, j \in DOMAIN finals' :
            (i < j /\ finals'[i].by = "flush") => finals'[j].drained > finals'[i].drained
       /\ (w_pc = "top" /\ recent_transcription = NoText) => UNCHANGED <<finals, task_queue>>
       /\ (w_pc = "check" /\ data_queue = <<>>) => UNCHANGED <<finals, task_queue>>]_vars

\* C5 witness: the flush finalized a phrase in an earlier pass, and a later
\* pass found the queue empty and the timeout expired again.
C5_Witness ==
    /\ w_pc = "sleep" /\ engine_result = "none"
    /\ now - phrase_time > Timeout
    /\ finals # <<>> /\ finals[Len(finals)].by = "flush"
    /\ finals[Len(finals)].drained = Drained
    /\ Len(finals) = tick0.nfinals
    /\ recent_transcription = NoText

\* C7 (as claimed): a pass whose transcription raises emits nothing and ends
\* with buffer, phrase_time and recent_transcription as it found them.
C7_FailedPassChangesNothing ==
    [][(w_pc = "transcribe" /\ engine_result' = "raise") =>
          /\ Len(finals') = tick0.nfinals
          /\ Len(generated') = tick0.ngenerated
          /\ last_sample' = tick0.last_sample
          /\ phrase_time' = tick0.phrase_time
          /\ recent_transcription' = tick0.recent_transcription
          /\ w_pc' = "sleep"]_vars

\* C7 (amended): a transcription that raises emits nothing and changes neither
\* buffer, phrase_time nor recent_transcription: they stay as the flush and the
\* drain of the same pass left them.  No update is emitted in that pass, and
\* the worker goes on to sleep and to its next pass.
C7_FailedTranscriptionChangesNothing ==
    [][(w_pc = "transcribe" /\ engine_result' = "raise") =>
          /\ UNCHANGED <<finals, task_queue, generated, last_sample, phrase_time,
                         recent_transcription, current_client>>
          /\ Len(generated') = tick0.ngenerated
          /\ w_pc' = "sleep"]_vars

\* C7 witness: the transcription raised in a pass that had appended audio to
\* the buffer; the text of the earlier transcription is still there.
C7_Witness ==
    /\ w_pc = "sleep" /\ engine_result = "raise"
    /\ recent_transcription # NoText
    /\ last_sample # tick0.last_sample
    /\ recent_transcription = tick0.recent_transcription

\* The phrases the synthesis worker has taken from task_queue.
Taken == Len(finals) - Len(task_queue)

\* C6 (as claimed): the results handed to the output are, in order, the
\* phrases put on task_queue, each once and for its own client, and the worker
\* does not end with phrases left over while the engine succeeds.
C6_EveryPhraseDispatched ==
    /\ Len(dispatched) <= Taken
    /\ \A i \in DOMAIN dispatched :
          dispatched[i] = [client |-> finals[i].client, audio |-> Speech(finals[i].text)]
    /\ (t_pc = "dead" /\ t_error # "engine") =>
          \A i \in DOMAIN task_queue : task_queue[i][2] = NoText

\* C8 (as claimed): sending to a socket that is no longer in read_list writes
\* nothing, raises nothing and lets the worker go on.
C8_RemovedSocketNoOp ==
    [][(t_pc = "callback" /\ t_pc' # "callback"
        /\ t_task[1] # None /\ t_task[1] \notin read_list) =>
          /\ sent' = sent
          /\ t_error' = "none"
          /\ t_pc' = "sleep"]_vars

\* C9 (as claimed): an exception of the synthesis engine does not end the
\* worker thread.
C9_EngineErrorContained == t_error = "engine" => t_pc # "dead"

\* C10 (as claimed): a failed write removes the client from read_list and the
\* worker thread goes on.
C10_SendErrorContained ==
    [][(t_pc = "callback" /\ t_error' \in {"reset", "pipe"}) =>
          /\ t_task[1] \notin read_list'
          /\ t_pc' = "sleep"]_vars

\* C11 (as claimed): when start() has returned after the stop signal, the
\* listening socket and every client socket still in read_list are closed.
C11_AllSocketsClosed ==
    m_pc = "returned" => (serversocket \in closed /\ read_list \subseteq closed)

\* C12 (as claimed): after the stop signal both worker threads leave their
\* loops and end.
C12_BothWorkersEnd ==
    (m_pc # "loop") ~> (w_pc = "exit" /\ t_pc = "exit")

\* C13 (as claimed): read_list is changed on the multiplexer thread only: no
\* step of the synthesis thread, on which stream_numpy_array_audio runs, adds
\* or removes a socket.
C13_OnlyMultiplexerMutates ==
    [][(t_pc' # t_pc) => (read_list' = read_list)]_vars

\* The chunk numbers in the phrase buffer.
InBuffer == {last_sample[i].n : i \in DOMAIN last_sample}

\* The chunks popped in the current pass of the worker.
PassChunks == (tick0.drained + 1)..Drained

\* The byte of chunk k.
ChunkByte(k) == [src |-> arrivals[k].client, n |-> k]

\* data_queue holds the chunks not yet popped, in the order they were pushed.
QueueIsFifo ==
    \A i \in DOMAIN data_queue :
        data_queue[i] = <<arrivals[Drained + i].client, <<ChunkByte(Drained + i)>>>>

\* The byte of the chunk that a step pops.
PoppedByte == [src |-> arrivals'[Drained'].client, n |-> Drained']

\* C14 (as claimed): the chunks are popped once each in the order they were
\* pushed, every popped chunk is appended at the end of the buffer, and every
\* chunk popped in a pass is in the buffer given to the transcription of that
\* pass.
C14_EveryChunkTranscribed ==
    [][/\ QueueIsFifo'
       /\ (Drained' = Drained + 1) =>
              (last_sample' # <<>> /\ last_sample'[Len(last_sample')] = PoppedByte)
       /\ (w_pc = "transcribe" /\ w_pc' = "sleep") => (PassChunks \subseteq InBuffer)]_vars

\* C14 (amended): the same, but a chunk popped in a pass is in the buffer
\* given to the transcription of that pass only if every chunk popped after it
\* in that pass came from the same client; chunks of one client popped in a
\* row are appended to one another.
C14_ChunkTranscribedUnlessSwitched ==
    [][/\ QueueIsFifo'
       /\ (Drained' = Drained + 1) =>
              /\ last_sample' # <<>>
              /\ last_sample'[Len(last_sample')] = PoppedByte
              /\ (arrivals[Drained'].client = current_client) =>
                     (last_sample' = Append(last_sample, PoppedByte))
       /\ (w_pc = "transcribe" /\ w_pc' = "sleep") =>
              \A k \in PassChunks :
                  (\A m \in k..Drained : arrivals[m].client = arrivals[k].client)
                      => (k \in InBuffer)]_vars

\* Two chunks of one client were popped in one pass and transcribed together.
C14_Witness ==
    /\ w_pc = "sleep"
    /\ engine_result # "none"
    /\ Cardinality(PassChunks) >= 2
    /\ PassChunks \subseteq InBuffer

\* C15 (as claimed): an update with add = FALSE transcribes a buffer that
\* extends the buffer of the update before it, so the first update after the
\* buffer was cleared has add = TRUE (the very first update is left aside).
C15_AddMarksNewPhrase ==
    \A j \in 2..Len(generated) :
        (~generated[j].add) => IsPrefix(generated[j - 1].text, generated[j].text)

\* C16 (as claimed): every finalized phrase, and every task on the synthesis
\* queue, has text and a client, the very first chunk included.
C16_FinalsHaveTextAndClient ==
    /\ \A i \in DOMAIN finals : finals[i].text # NoText /\ finals[i].client # None
    /\ \A i \in DOMAIN task_queue : task_queue[i][2] # NoText /\ task_queue[i][1] # None

\* C18: whenever the worker drains and transcribes with phrase_complete = TRUE,
\* recent_transcription is empty; so every finalized phrase comes from the
\* idle flush or from the client switch, and no transcription is finalized
\* twice.
C18_CompleteMeansNoText ==
    /\ (w_pc \in {"drain", "transcribe"} /\ phrase_complete) => recent_transcription = NoText
    /\ \A i \in DOMAIN finals : finals[i].by \in {"flush", "switch"}
    /\ \A i, j \in TextFinals : (i # j) => (finals[i].text # finals[j].text)

\* A phrase was flushed, and a later pass found the timeout expired again
\* with data in the queue: it transcribes with phrase_complete = TRUE.
C18_Witness ==
    /\ w_pc = "transcribe"
    /\ phrase_complete
    /\ Flushes # {}
    /\ last_sample # <<>>

\* C19 (as claimed): however the removals of the multiplexer and of the
\* synthesis thread interleave, neither thread removes a socket that is no
\* longer in read_list, so neither ends with a ValueError.
C19_NoDoubleRemoval ==
    /\ m_pc # "crashed"
    /\ t_error # "value"

\* The step finalizes the text that recent_transcription held, for its owner.
EmitsRecent ==
    /\ Len(finals') = Len(finals) + 1
    /\ finals'[Len(finals')].text = recent_transcription
    /\ finals'[Len(finals')].client = current_client

\* C20: a text in recent_transcription is never lost: a step that changes it
\* either replaces it by the transcription of the same buffer grown longer or
\* finalizes it for its owner; and, with the worker thread scheduled fairly,
\* a text that is held while the clock can still pass phrase_time +
\* phrase_timeout is finalized eventually.
C20_NoTextDropped ==
    /\ [][(recent_transcription # NoText /\ recent_transcription' # recent_transcription)
            => \/ (recent_transcription' # NoText
                   /\ IsPrefix(recent_transcription, recent_transcription'))
               \/ EmitsRecent]_vars
    /\ (recent_transcription # NoText /\ phrase_time + Timeout < MaxTime)
           ~> (recent_transcription = NoText)

\* A text was replaced by the transcription of the grown buffer, and a text
\* was finalized by the idle flush.
C20_Witness ==
    /\ \E j \in 2..Len(generated) :
          /\ generated[j].text # generated[j - 1].text
          /\ IsPrefix(generated[j - 1].text, generated[j].text)
    /\ \E i \in Flushes : \E j \in DOMAIN generated : finals[i].text = generated[j].text
    /\ recent_transcription = NoText

====
